---- MODULE Spec2Model ----
(***************************************************************************)
(* Model of src/db.py (pg_query_to_yadisk): main() runs a query against    *)
(* PostgreSQL, writes the result to a local CSV file, creates the remote   *)
(* directory on the WebDAV store segment by segment (MKCOL), uploads the   *)
(* file (PUT) and removes the local file.                                  *)
(*                                                                         *)
(* Strings are sequences of one-character strings.  The outcome of every   *)
(* call into the environment (store, filesystem, network) is chosen        *)
(* nondeterministically among the outcomes the call can have.              *)
(***************************************************************************)
EXTENDS Integers, Sequences, FiniteSets, TLC

VARIABLES
    pc,           \* position of the single control flow
    cmdline,      \* "ok" | "invalid": does sys.argv satisfy the parser (--query is required)
    token,        \* TRUE iff YANDEX_DISK_TOKEN is set and non-empty
    pg_user,      \* TRUE iff --pg-user / PGUSER is given
    pg_database,  \* TRUE iff --pg-database / PGDATABASE is given
    local_temp,   \* TRUE iff the caller gave --local-temp
    raw_dir,      \* args.remote_dir as given
    fileExists,   \* does a file exist at local_path
    fsOps,        \* filesystem calls made on local_path, in order
    conn,         \* "none" | "open" | "closed"
    cur,          \* "none" | "open" | "closed" | "close_failed"
    queryStatus,  \* "none" | "running" | "returned" | "raised"
    written,      \* data rows written to the file by the current run
    headerDone,   \* TRUE once writeheader() has returned
    parts,        \* remote_dir.split("/")
    accum,        \* the accumulated prefix of the MKCOL loop
    idx,          \* number of loop iterations of the MKCOL loop done
    requests,     \* HTTP requests issued, in order: <<verb, url>>
    responses,    \* outcome of each MKCOL request, in order
    resp,         \* <<>> or <<status>> of the PUT response
    exc,          \* pending exception: "none" | "Error" | "SystemExit1" | "SystemExit2"
    stdout,       \* messages printed to stdout, in order
    stderr,       \* messages printed to stderr, in order
    removeFailed, \* TRUE iff os.remove(local_path) raised
    exitCode,     \* <<>> while running, <<status>> once the process has exited
    description,  \* serializer: column names of the result descriptor, in its order
    fieldnames,   \* serializer: the fieldnames list given to csv.DictWriter
    rows,         \* serializer: rows the cursor has yielded so far
    csvfile,      \* serializer: characters written to the file
    wpc,          \* serializer: position
    dbCalls,      \* calls made to the store that open a connection or run the query, in order
    chunk_size,   \* streamer: the fetch-batch size given to run_query_and_write_csv
    server,       \* streamer: rows of the result set still held by the server-side cursor
    buffer,       \* streamer: rows fetched by the client and not yet written, in order
    consumed,     \* streamer: rows written to the file, in order
    spc,          \* streamer: position
    ens_status,   \* ensure_remote_dir_exists: status of the MKCOL response
    ens_result    \* ensure_remote_dir_exists: "none" | "True" | "False"

mainVars == <<pc, cmdline, token, pg_user, pg_database, local_temp, raw_dir,
              fileExists, fsOps, conn, cur, queryStatus, written, headerDone,
              parts, accum, idx, requests, responses, resp, exc, stdout,
              stderr, removeFailed, exitCode, dbCalls>>
streamVars == <<chunk_size, server, buffer, consumed, spc>>
ensVars == <<ens_status, ens_result>>
\* the variables of the components specified on their own
csvVars == <<description, fieldnames, rows, csvfile, wpc, streamVars, ensVars>>
vars == <<mainVars, csvVars>>

(***************************************************************************)
(* Bounds of the model.                                                    *)
(***************************************************************************)
MaxDirLen == 4      \* longest --remote-dir, in characters
MaxRows == 2        \* most rows in a result set
MaxCols == 2        \* most columns in a result descriptor

DirChars == {"a", "/"}
MkcolStatuses == {201, 204, 405, 409, 500}
PutStatuses == {199, 200, 201, 299, 300, 403}

(***************************************************************************)
(* Program constants.                                                      *)
(***************************************************************************)
EXIT_PRECONDITION == 1      \* sys.exit(1)
EXIT_UPLOAD_FAILED == 2     \* sys.exit(2)
EXIT_USAGE == 2             \* parser.parse_args() on an invalid command line
EXIT_UNCAUGHT == 1          \* the interpreter's status for an uncaught exception

Slash == "/"
base_webdav == <<"https://webdav.yandex.ru">>
remote_filename == <<"remote_filename">>

(***************************************************************************)
(* String helpers: str.strip("/"), str.split("/").                         *)
(***************************************************************************)
RECURSIVE LStrip(_)
LStrip(s) ==
    IF s # <<>> /\ Head(s) = Slash THEN LStrip(Tail(s)) ELSE s

RECURSIVE RStrip(_)
RStrip(s) ==
    IF s # <<>> /\ s[Len(s)] = Slash THEN RStrip(SubSeq(s, 1, Len(s) - 1)) ELSE s

Strip(s) == RStrip(LStrip(s))

\* str.split("/"): the fields between the separators; "" splits into [""]
RECURSIVE SplitFrom(_, _, _)
SplitFrom(s, i, field) ==
    IF i > Len(s) THEN <<field>>
    ELSE IF s[i] = Slash THEN <<field>> \o SplitFrom(s, i + 1, <<>>)
    ELSE SplitFrom(s, i + 1, Append(field, s[i]))

Split(s) == SplitFrom(s, 1, <<>>)

\* the prefix accumulated without the separator
NextAccumNoSlash(a, p) == a \o p

\* accum = accum + "/" + p if accum else p
NextAccum(a, p) == IF a # <<>> THEN a \o <<Slash>> \o p ELSE p

UrlOf(path) == base_webdav \o <<Slash>> \o path

\* the success range with its upper end included
Is2xxInclusive(s) == 200 <= s /\ s <= 300

\* 200 <= status < 300
Is2xx(s) == 200 <= s /\ s < 300

AllSeqs(S, n) == UNION {[1..k -> S] : k \in 0..n}

Msg(tag, url, status, text) == [msg |-> tag, url |-> url, status |-> status, text |-> text]

(***************************************************************************)
(* Initial states: the command line, the environment and the filesystem    *)
(* as the caller left them.  A generated path (mkstemp) names a file that  *)
(* does not exist yet; a caller-supplied path may or may not exist.        *)
(***************************************************************************)
StreamIdle ==
    /\ chunk_size = 0
    /\ server = 0
    /\ buffer = <<>>
    /\ consumed = <<>>
    /\ spc = "idle"

EnsureIdle ==
    /\ ens_status = 0
    /\ ens_result = "none"

CsvIdle ==
    /\ description = <<>>
    /\ fieldnames = <<>>
    /\ rows = <<>>
    /\ csvfile = <<>>
    /\ wpc = "idle"
    /\ StreamIdle
    /\ EnsureIdle

Init ==
    /\ pc = "parse_args"
    /\ cmdline \in {"ok", "invalid"}
    /\ token \in BOOLEAN
    /\ pg_user \in BOOLEAN
    /\ pg_database \in BOOLEAN
    /\ local_temp \in BOOLEAN
    /\ raw_dir \in AllSeqs(DirChars, MaxDirLen)
    /\ fileExists \in (IF local_temp THEN BOOLEAN ELSE {FALSE})
    /\ fsOps = <<>>
    /\ conn = "none"
    /\ cur = "none"
    /\ queryStatus = "none"
    /\ written = 0
    /\ headerDone = FALSE
    /\ parts = <<>>
    /\ accum = <<>>
    /\ idx = 0
    /\ requests = <<>>
    /\ responses = <<>>
    /\ resp = <<>>
    /\ exc = "none"
    /\ stdout = <<>>
    /\ stderr = <<>>
    /\ removeFailed = FALSE
    /\ exitCode = <<>>
    /\ dbCalls = <<>>
    /\ CsvIdle

ioVars == <<requests, responses, resp, stdout, stderr>>
dbVars == <<conn, cur, queryStatus, written, headerDone, dbCalls>>
argVars == <<cmdline, token, pg_user, pg_database, local_temp, raw_dir>>
loopVars == <<parts, accum, idx>>
fsVars == <<fileExists, fsOps, removeFailed>>

(***************************************************************************)
(* main(), lines 85-131: argument parsing and the precondition checks.     *)
(***************************************************************************)
\* parser.parse_args(): an invalid command line ends the process with status 2
ParseArgs ==
    /\ pc = "parse_args"
    /\ IF cmdline = "ok"
       THEN /\ pc' = "check_token"
            /\ UNCHANGED <<stderr, exitCode>>
       ELSE /\ pc' = "exited"
            /\ stderr' = Append(stderr, Msg("usage", <<>>, 0, <<>>))
            /\ exitCode' = <<EXIT_USAGE>>
    /\ UNCHANGED <<argVars, fsVars, dbVars, loopVars, requests, responses, resp,
                   exc, stdout, csvVars>>

\* a token check that reports the missing token and goes on
CheckTokenNoExit ==
    /\ pc = "check_token"
    /\ pc' = "check_conn_params"
    /\ stderr' = IF token THEN stderr ELSE Append(stderr, Msg("no_token", <<>>, 0, <<>>))
    /\ UNCHANGED <<argVars, fsVars, dbVars, loopVars, requests, responses, resp,
                   exc, stdout, exitCode, csvVars>>

\* if not yad_token: ... sys.exit(1)
CheckToken ==
    /\ pc = "check_token"
    /\ IF token
       THEN /\ pc' = "check_conn_params"
            /\ UNCHANGED <<stderr, exitCode>>
       ELSE /\ pc' = "exited"
            /\ stderr' = Append(stderr, Msg("no_token", <<>>, 0, <<>>))
            /\ exitCode' = <<EXIT_PRECONDITION>>
    /\ UNCHANGED <<argVars, fsVars, dbVars, loopVars, requests, responses, resp,
                   exc, stdout, csvVars>>

\* the check with "and" in place of "or"
ConnParamsMissingBoth == ~pg_user /\ ~pg_database

\* not conn_params["user"] or not conn_params["dbname"]
ConnParamsMissing == ~pg_user \/ ~pg_database

\* if not conn_params["user"] or not conn_params["dbname"]: ... sys.exit(1)
CheckConnParams ==
    /\ pc = "check_conn_params"
    /\ IF ConnParamsMissing
       THEN /\ pc' = "exited"
            /\ stderr' = Append(stderr, Msg("no_conn_params", <<>>, 0, <<>>))
            /\ exitCode' = <<EXIT_PRECONDITION>>
       ELSE /\ pc' = "local_path"
            /\ UNCHANGED <<stderr, exitCode>>
    /\ UNCHANGED <<argVars, fsVars, dbVars, loopVars, requests, responses, resp,
                   exc, stdout, csvVars>>

\* local_path = args.local_temp, or a fresh file made by tempfile.mkstemp
LocalPath ==
    /\ pc = "local_path"
    /\ IF local_temp
       THEN UNCHANGED <<fileExists, fsOps>>
       ELSE /\ fileExists' = TRUE
            /\ fsOps' = Append(fsOps, "mkstemp")
    /\ stdout' = Append(stdout, Msg("running_query", <<>>, 0, <<>>))
    /\ pc' = "connect"
    /\ queryStatus' = "running"
    /\ UNCHANGED <<argVars, removeFailed, conn, cur, written, headerDone, dbCalls, loopVars,
                   requests, responses, resp, exc, stderr, exitCode, csvVars>>

(***************************************************************************)
(* run_query_and_write_csv, lines 30-59.  Every call into the store or the *)
(* filesystem either succeeds or raises.  conn and cur are made before the *)
(* try statement; the finally clause closes cur (ignoring a failure) and   *)
(* then conn.                                                              *)
(***************************************************************************)
frameQuery == UNCHANGED <<argVars, removeFailed, loopVars, ioVars, exitCode, csvVars>>

\* a connection that is tried again after a failure
ConnectRetry ==
    /\ pc = "connect"
    /\ \E ok \in BOOLEAN :
         IF ok
         THEN /\ conn' = "open"
              /\ pc' = "cursor"
         ELSE /\ pc' = "connect"
              /\ UNCHANGED conn
    /\ UNCHANGED <<exc, queryStatus, cur, written, headerDone, fileExists, fsOps>>
    /\ dbCalls' = Append(dbCalls, "connect")
    /\ frameQuery

\* conn = psycopg2.connect(**conn_params), before the try statement
Connect ==
    /\ pc = "connect"
    /\ \E ok \in BOOLEAN :
         IF ok
         THEN /\ conn' = "open"
              /\ pc' = "cursor"
              /\ UNCHANGED <<exc, queryStatus>>
         ELSE /\ exc' = "Error"
              /\ queryStatus' = "raised"
              /\ pc' = "finally"
              /\ UNCHANGED conn
    /\ UNCHANGED <<cur, written, headerDone, fileExists, fsOps>>
    /\ dbCalls' = Append(dbCalls, "connect")
    /\ frameQuery

\* cur = conn.cursor(name=..., cursor_factory=...), before the try statement:
\* an exception here leaves the function without running its finally clause
OpenCursor ==
    /\ pc = "cursor"
    /\ \E ok \in BOOLEAN :
         IF ok
         THEN /\ cur' = "open"
              /\ pc' = "execute"
              /\ UNCHANGED <<exc, queryStatus>>
         ELSE /\ exc' = "Error"
              /\ queryStatus' = "raised"
              /\ pc' = "finally"
              /\ UNCHANGED cur
    /\ UNCHANGED <<conn, written, headerDone, fileExists, fsOps>>
    /\ UNCHANGED dbCalls
    /\ frameQuery

\* cur.itersize = chunk_size; cur.execute(query)
Execute ==
    /\ pc = "execute"
    /\ \E ok \in BOOLEAN :
         IF ok
         THEN pc' = "description" /\ UNCHANGED exc
         ELSE pc' = "close_cursor" /\ exc' = "Error"
    /\ UNCHANGED <<conn, cur, queryStatus, written, headerDone, fileExists, fsOps>>
    /\ dbCalls' = Append(dbCalls, "execute")
    /\ frameQuery

\* fieldnames = list(cur.description[i].name for i in range(len(cur.description)))
Description ==
    /\ pc = "description"
    /\ \E ok \in BOOLEAN :
         IF ok
         THEN pc' = "open_file" /\ UNCHANGED exc
         ELSE pc' = "close_cursor" /\ exc' = "Error"
    /\ UNCHANGED <<conn, cur, queryStatus, written, headerDone, fileExists, fsOps>>
    /\ UNCHANGED dbCalls
    /\ frameQuery

\* with open(local_path, mode="w", ...): creates or truncates the file
OpenFile ==
    /\ pc = "open_file"
    /\ \E ok \in BOOLEAN :
         IF ok
         THEN /\ fileExists' = TRUE
              /\ fsOps' = Append(fsOps, "open_w")
              /\ pc' = "write_header"
              /\ UNCHANGED exc
         ELSE /\ pc' = "close_cursor"
              /\ exc' = "Error"
              /\ UNCHANGED <<fileExists, fsOps>>
    /\ UNCHANGED <<conn, cur, queryStatus, written, headerDone>>
    /\ UNCHANGED dbCalls
    /\ frameQuery

\* writer = csv.DictWriter(csvfile, fieldnames=fieldnames); writer.writeheader()
WriteHeader ==
    /\ pc = "write_header"
    /\ \E ok \in BOOLEAN :
         IF ok
         THEN /\ headerDone' = TRUE
              /\ pc' = "rows"
              /\ UNCHANGED exc
         ELSE /\ pc' = "close_cursor"
              /\ exc' = "Error"
              /\ UNCHANGED headerDone
    /\ UNCHANGED <<conn, cur, queryStatus, written, fileExists, fsOps>>
    /\ UNCHANGED dbCalls
    /\ frameQuery

\* for row in cur: writer.writerow(row) -- one iteration, or the end of the loop
WriteRows ==
    /\ pc = "rows"
    /\ \E outcome \in {"row", "end", "fetch_error", "write_error"} :
         CASE outcome = "row" ->
                /\ written < MaxRows
                /\ written' = written + 1
                /\ UNCHANGED <<pc, exc>>
           [] outcome = "end" ->
                /\ pc' = "close_cursor"
                /\ UNCHANGED <<written, exc>>
           [] OTHER ->
                /\ pc' = "close_cursor"
                /\ exc' = "Error"
                /\ UNCHANGED written
    /\ UNCHANGED <<conn, cur, queryStatus, headerDone, fileExists, fsOps>>
    /\ UNCHANGED dbCalls
    /\ frameQuery

\* finally: try: cur.close() except Exception: pass
CloseCursor ==
    /\ pc = "close_cursor"
    /\ \E ok \in BOOLEAN : cur' = (IF ok THEN "closed" ELSE "close_failed")
    /\ pc' = "close_conn"
    /\ UNCHANGED <<conn, queryStatus, written, headerDone, fileExists, fsOps, exc>>
    /\ UNCHANGED dbCalls
    /\ frameQuery

\* a swallowed query error: the function returns as if the stage had succeeded
CloseConnSwallow ==
    /\ pc = "close_conn"
    /\ conn' = "closed"
    /\ queryStatus' = (IF exc = "none" THEN "returned" ELSE "raised")
    /\ pc' = "prepare_urls"
    /\ exc' = "none"
    /\ UNCHANGED <<cur, written, headerDone, fileExists, fsOps>>
    /\ UNCHANGED dbCalls
    /\ frameQuery

\* finally: conn.close(); then the function returns, or the pending exception
\* propagates to the try statement of main()
CloseConn ==
    /\ pc = "close_conn"
    /\ conn' = "closed"
    /\ IF exc = "none"
       THEN queryStatus' = "returned" /\ pc' = "prepare_urls"
       ELSE queryStatus' = "raised" /\ pc' = "finally"
    /\ UNCHANGED <<cur, written, headerDone, fileExists, fsOps, exc>>
    /\ UNCHANGED dbCalls
    /\ frameQuery

(***************************************************************************)
(* main(), lines 137-176: the remote side.                                 *)
(***************************************************************************)
remote_dir == Strip(raw_dir)
remote_dir_url == UrlOf(remote_dir)
remote_file_url == remote_dir_url \o <<Slash>> \o remote_filename

Bodies == {<<"Forbidden">>}
MkcolOutcomes == [raised : {FALSE}, status : MkcolStatuses] \cup {[raised |-> TRUE, status |-> 0]}
PutOutcomes == [raised : {FALSE}, status : PutStatuses, text : Bodies]
                   \cup {[raised |-> TRUE, status |-> 0, text |-> <<>>]}

\* remote_dir = args.remote_dir.strip("/"); parts = remote_dir.split("/"); accum = ""
PrepareUrls ==
    /\ pc = "prepare_urls"
    /\ parts' = Split(remote_dir)
    /\ accum' = <<>>
    /\ idx' = 0
    /\ pc' = "mkcol"
    /\ UNCHANGED <<argVars, fsVars, dbVars, ioVars, exc, exitCode, csvVars>>

\* what one iteration of the MKCOL loop prints for the outcome o of its request
MkcolWarning(url, o) ==
    IF o.raised THEN <<Msg("mkcol_failed", url, 0, <<>>)>>
    ELSE IF o.status \in {201, 405} THEN <<>>
    ELSE IF o.status = 409 THEN <<>>
    ELSE IF ~(200 <= o.status /\ o.status < 300)
         THEN <<Msg("mkcol_status", url, o.status, <<>>)>>
    ELSE <<>>

\* a loop whose request errors end the try block
MkcolNextPcAbort(o) == IF o.raised \/ o.status = 409 THEN "finally" ELSE "mkcol"

\* every outcome of the request is handled inside the loop body (lines 157-168):
\* the loop goes on to its next iteration
MkcolNextPc(o) == "mkcol"

\* for p in parts: one iteration (lines 153-168), or the end of the loop
Mkcol ==
    /\ pc = "mkcol"
    /\ IF idx < Len(parts)
       THEN LET a == NextAccum(accum, parts[idx + 1])
                url_part == UrlOf(a)
            IN  /\ accum' = a
                /\ idx' = idx + 1
                /\ requests' = Append(requests, <<"MKCOL", url_part>>)
                /\ \E o \in MkcolOutcomes :
                     /\ responses' = Append(responses, o)
                     /\ stdout' = stdout \o MkcolWarning(url_part, o)
                     /\ pc' = MkcolNextPc(o)
       ELSE /\ pc' = "upload"
            /\ UNCHANGED <<accum, idx, requests, responses, stdout>>
    /\ UNCHANGED <<argVars, fsVars, dbVars, parts, resp, stderr, exc, exitCode, csvVars>>

\* print(...); resp = upload_file_to_yadisk(local_path, remote_file_url, auth)
\* (lines 73-80: open(local_path, 'rb'), requests.put(remote_url, data=f))
Upload ==
    /\ pc = "upload"
    /\ stdout' = Append(stdout, Msg("uploading", remote_file_url, 0, <<>>))
    /\ fsOps' = Append(fsOps, "open_rb")
    /\ requests' = Append(requests, <<"PUT", remote_file_url>>)
    /\ \E o \in PutOutcomes :
         IF o.raised
         THEN /\ exc' = "Error"
              /\ pc' = "finally"
              /\ UNCHANGED resp
         ELSE /\ resp' = <<[status_code |-> o.status, text |-> o.text]>>
              /\ pc' = "interpret"
              /\ UNCHANGED exc
    /\ UNCHANGED <<argVars, fileExists, removeFailed, dbVars, loopVars, responses,
                   stderr, exitCode, csvVars>>

\* if 200 <= resp.status_code < 300: print(...) else: print(..., file=sys.stderr); sys.exit(2)
Interpret ==
    /\ pc = "interpret"
    /\ IF Is2xx(resp[1].status_code)
       THEN /\ stdout' = Append(stdout, Msg("uploaded", remote_filename, 0, <<>>))
            /\ UNCHANGED <<stderr, exc>>
       ELSE /\ stderr' = Append(stderr,
                    Msg("upload_error", <<>>, resp[1].status_code, resp[1].text))
            /\ exc' = "SystemExit2"
            /\ UNCHANGED stdout
    /\ pc' = "finally"
    /\ UNCHANGED <<argVars, fsVars, dbVars, loopVars, requests, responses, resp,
                   exitCode, csvVars>>

\* the exit status of the process once the finally clause has run
ExitStatus(e) ==
    CASE e = "none" -> 0
      [] e = "SystemExit2" -> EXIT_UPLOAD_FAILED
      [] OTHER -> EXIT_UNCAUGHT

Traceback(e) == IF e = "Error" THEN <<Msg("traceback", <<>>, 0, <<>>)>> ELSE <<>>

\* cleanup that runs only when the try block ended without an exception
ShouldRemoveOnSuccess == fileExists /\ exc = "none"

\* cleanup that spares a caller-supplied path
ShouldRemoveGenerated == fileExists /\ ~local_temp

\* if os.path.exists(local_path): whatever the origin of local_path
ShouldRemove == fileExists

\* an os.remove whose exception leaves the finally clause
AfterRemoveErrorRaised(e) == "Error"

\* try: os.remove(local_path) except Exception as e: print(...): the exception
\* of os.remove is caught, the pending exception e of the try block stays
AfterRemoveError(e) == e

\* finally: if os.path.exists(local_path): try: os.remove(local_path) except ...
\* (lines 178-184), then the process ends
Finally ==
    /\ pc = "finally"
    /\ IF ShouldRemove
       THEN \E ok \in BOOLEAN :
              IF ok
              THEN /\ fileExists' = FALSE
                   /\ fsOps' = Append(fsOps, "remove")
                   /\ stderr' = stderr \o Traceback(exc)
                   /\ exitCode' = <<ExitStatus(exc)>>
                   /\ UNCHANGED removeFailed
              ELSE /\ removeFailed' = TRUE
                   /\ fsOps' = Append(fsOps, "remove_failed")
                   /\ stderr' = Append(stderr, Msg("remove_failed", <<>>, 0, <<>>))
                                     \o Traceback(AfterRemoveError(exc))
                   /\ exitCode' = <<ExitStatus(AfterRemoveError(exc))>>
                   /\ UNCHANGED fileExists
       ELSE /\ stderr' = stderr \o Traceback(exc)
            /\ exitCode' = <<ExitStatus(exc)>>
            /\ UNCHANGED <<fileExists, fsOps, removeFailed>>
    /\ pc' = "exited"
    /\ UNCHANGED <<argVars, dbVars, loopVars, requests, responses, resp, stdout,
                   exc, csvVars>>

Next ==
    \/ ParseArgs
    \/ CheckToken
    \/ CheckConnParams
    \/ LocalPath
    \/ Connect
    \/ OpenCursor
    \/ Execute
    \/ Description
    \/ OpenFile
    \/ WriteHeader
    \/ WriteRows
    \/ CloseCursor
    \/ CloseConn
    \/ PrepareUrls
    \/ Mkcol
    \/ Upload
    \/ Interpret
    \/ Finally

Spec == Init /\ [][Next]_vars

(***************************************************************************)
(* The serializer of run_query_and_write_csv, lines 43-52, character by    *)
(* character.  csv.DictWriter is used with its defaults (the "excel"       *)
(* dialect): delimiter ',', quotechar '"', doubled quotes, minimal         *)
(* quoting, line terminator "\r\n"; the file is opened with newline="",    *)
(* so the terminator is written untranslated.                              *)
(***************************************************************************)
Comma == ","
DQuote == "\""
CR == "\r"
LF == "\n"
lineterminator == <<CR, LF>>

\* a value of a row: a text, or None (a token that is no text)
None == <<"None">>
restval == <<>>
ColNames == {<<"i", "d">>, <<"n", Comma>>}
Values == {None, <<"x">>, <<Comma, DQuote>>, <<"x", LF>>}

Range(f) == {f[i] : i \in DOMAIN f}

\* the writer turns None into the empty string
Str(v) == IF v = None THEN <<>> ELSE v

\* minimal quoting that overlooks the delimiter
NeedsQuoteNoDelimiter(f) ==
    \E i \in 1..Len(f) : f[i] \in {DQuote, CR, LF}

\* QUOTE_MINIMAL: a field is quoted when it holds the delimiter, the quote
\* character or a character of the line terminator
NeedsQuote(f) ==
    \E i \in 1..Len(f) : f[i] \in {Comma, DQuote, CR, LF}

\* doublequote: every quote character of the field is written twice
RECURSIVE DoubleQuotes(_)
DoubleQuotes(f) ==
    IF f = <<>> THEN <<>>
    ELSE (IF Head(f) = DQuote THEN <<DQuote, DQuote>> ELSE <<Head(f)>>)
             \o DoubleQuotes(Tail(f))

QuoteField(f) ==
    IF NeedsQuote(f) THEN <<DQuote>> \o DoubleQuotes(f) \o <<DQuote>> ELSE f

RECURSIVE JoinFields(_)
JoinFields(fs) ==
    IF fs = <<>> THEN <<>>
    ELSE IF Len(fs) = 1 THEN QuoteField(fs[1])
    ELSE QuoteField(fs[1]) \o <<Comma>> \o JoinFields(Tail(fs))

\* writer.writerow(fields): the joined fields and the line terminator; a
\* record of one empty field is written as a pair of quotes
RecordLine(fs) ==
    (IF Len(fs) = 1 /\ fs[1] = <<>> THEN <<DQuote, DQuote>> ELSE JoinFields(fs))
        \o lineterminator

\* the columns of the row taken in reverse
DictToListReversed(rowdict) ==
    [i \in 1..Len(fieldnames) |->
        LET key == fieldnames[Len(fieldnames) + 1 - i]
        IN  IF key \in DOMAIN rowdict THEN rowdict[key] ELSE restval]

\* DictWriter._dict_to_list: rowdict.get(key, restval) for key in fieldnames
DictToList(rowdict) ==
    [i \in 1..Len(fieldnames) |->
        IF fieldnames[i] \in DOMAIN rowdict THEN rowdict[fieldnames[i]] ELSE restval]

\* a row as the cursor yields it (RealDictRow): one value per column name
RowsOf(names) == [Range(names) -> Values]

csvFrame == UNCHANGED <<mainVars, description, streamVars, ensVars>>

\* fieldnames = list(cur.description[i].name for i in range(len(cur.description)))
CsvFieldnames ==
    /\ wpc = "fieldnames"
    /\ fieldnames' = [i \in 1..Len(description) |-> description[i]]
    /\ wpc' = "header"
    /\ UNCHANGED <<rows, csvfile>>
    /\ csvFrame

\* open(local_path, mode="w", newline="", encoding="utf-8"); writer.writeheader()
CsvWriteHeader ==
    /\ wpc = "header"
    /\ csvfile' = RecordLine(fieldnames)
    /\ wpc' = "rows"
    /\ UNCHANGED <<fieldnames, rows>>
    /\ csvFrame

\* for row in cur: writer.writerow(row)
CsvWriteRow ==
    /\ wpc = "rows"
    /\ Len(rows) < MaxRows
    /\ \E row \in RowsOf(description) :
         /\ rows' = Append(rows, row)
         /\ csvfile' = csvfile \o RecordLine([i \in 1..Len(fieldnames) |-> Str(DictToList(row)[i])])
    /\ UNCHANGED <<fieldnames, wpc>>
    /\ csvFrame

\* the cursor is exhausted: the with block closes the file
CsvEndOfRows ==
    /\ wpc = "rows"
    /\ wpc' = "done"
    /\ UNCHANGED <<fieldnames, rows, csvfile>>
    /\ csvFrame

\* the serializer on its own: the descriptor and the rows are the inputs
CsvInit ==
    /\ pc = "serialize"
    /\ cmdline = "ok"
    /\ token = TRUE
    /\ pg_user = TRUE
    /\ pg_database = TRUE
    /\ local_temp = FALSE
    /\ raw_dir = <<>>
    /\ fileExists = TRUE
    /\ fsOps = <<"mkstemp">>
    /\ conn = "open"
    /\ cur = "open"
    /\ queryStatus = "running"
    /\ written = 0
    /\ headerDone = FALSE
    /\ parts = <<>>
    /\ accum = <<>>
    /\ idx = 0
    /\ requests = <<>>
    /\ responses = <<>>
    /\ resp = <<>>
    /\ exc = "none"
    /\ stdout = <<>>
    /\ stderr = <<>>
    /\ removeFailed = FALSE
    /\ exitCode = <<>>
    /\ dbCalls = <<"connect", "execute">>
    /\ StreamIdle
    /\ EnsureIdle
    /\ description \in AllSeqs(ColNames, MaxCols)
    /\ fieldnames = <<>>
    /\ rows = <<>>
    /\ csvfile = <<>>
    /\ wpc = "fieldnames"

CsvNext ==
    \/ CsvFieldnames
    \/ CsvWriteHeader
    \/ CsvWriteRow
    \/ CsvEndOfRows

CsvSpec == CsvInit /\ [][CsvNext]_vars

(***************************************************************************)
(* The serializer taken by itself, as a consumer of a row sequence: the    *)
(* writer is csv.DictWriter(csvfile, fieldnames=fieldnames) with its       *)
(* default restval and extrasaction, and a row is any mapping from some of *)
(* the column names to values.  (The rows a RealDictCursor yields carry    *)
(* every column of the descriptor; the code itself puts no check between   *)
(* the cursor and the writer.)                                             *)
(***************************************************************************)
AnyRowsOf(names) == UNION {[D -> Values] : D \in SUBSET Range(names)}

\* writer.writerow(row) for a row of any shape: no key outside fieldnames, so
\* extrasaction="raise" does not fire; missing keys are filled by DictToList
CsvWriteAnyRow ==
    /\ wpc = "rows"
    /\ Len(rows) < MaxRows
    /\ \E row \in AnyRowsOf(description) :
         /\ rows' = Append(rows, row)
         /\ csvfile' = csvfile \o RecordLine([i \in 1..Len(fieldnames) |-> Str(DictToList(row)[i])])
    /\ UNCHANGED <<fieldnames, wpc>>
    /\ csvFrame

SerializerNext ==
    \/ CsvFieldnames
    \/ CsvWriteHeader
    \/ CsvWriteAnyRow
    \/ CsvEndOfRows

SerializerSpec == CsvInit /\ [][SerializerNext]_vars

(***************************************************************************)
(* The row streamer of run_query_and_write_csv, lines 35-52: the cursor is *)
(* a named (server-side) cursor whose itersize is chunk_size; iterating it *)
(* fetches the next batch of at most itersize rows from the server when    *)
(* the rows of the previous batch have all been handed out, and the loop   *)
(* body writes each row as it gets it.  Rows are numbered 1..N in the      *)
(* order of the store.                                                     *)
(***************************************************************************)
MaxChunk == 3       \* largest chunk_size
MaxResult == 6      \* most rows in a streamed result set

\* main() in the middle of the query stage, for the components specified on their own
MainInQueryStage ==
    /\ pc = "serialize"
    /\ cmdline = "ok"
    /\ token = TRUE
    /\ pg_user = TRUE
    /\ pg_database = TRUE
    /\ local_temp = FALSE
    /\ raw_dir = <<>>
    /\ fileExists = TRUE
    /\ fsOps = <<"mkstemp">>
    /\ conn = "open"
    /\ cur = "open"
    /\ queryStatus = "running"
    /\ written = 0
    /\ headerDone = FALSE
    /\ parts = <<>>
    /\ accum = <<>>
    /\ idx = 0
    /\ requests = <<>>
    /\ responses = <<>>
    /\ resp = <<>>
    /\ exc = "none"
    /\ stdout = <<>>
    /\ stderr = <<>>
    /\ removeFailed = FALSE
    /\ exitCode = <<>>
    /\ dbCalls = <<"connect">>

SerializerIdle ==
    /\ description = <<>>
    /\ fieldnames = <<>>
    /\ rows = <<>>
    /\ csvfile = <<>>
    /\ wpc = "idle"

Min(a, b) == IF a <= b THEN a ELSE b

\* a cursor that takes the whole result set at once (a client-side cursor)
FetchSizeAll(itersize, remaining) == remaining

\* one fetch of the named cursor: at most itersize rows
FetchSize(itersize, remaining) == Min(itersize, remaining)

streamFrame == UNCHANGED <<mainVars, description, fieldnames, rows, csvfile, wpc, ensVars>>

\* cur.itersize = chunk_size; cur.execute(query): the result set stays on the server
StreamExecute ==
    /\ spc = "execute"
    /\ spc' = "iterate"
    /\ UNCHANGED <<chunk_size, server, buffer, consumed>>
    /\ streamFrame

\* for row in cur: the rows handed out so far are used up, the next batch is
\* fetched; an empty batch ends the loop
StreamFetch ==
    /\ spc = "iterate"
    /\ buffer = <<>>
    /\ LET n == FetchSize(chunk_size, server)
           first == Len(consumed) + 1
       IN  /\ buffer' = [i \in 1..n |-> first + i - 1]
           /\ server' = server - n
           /\ spc' = IF n = 0 THEN "done" ELSE "iterate"
    /\ UNCHANGED <<chunk_size, consumed>>
    /\ streamFrame

\* writer.writerow(row): the next row of the batch is written and let go
StreamWriteRow ==
    /\ spc = "iterate"
    /\ buffer # <<>>
    /\ consumed' = Append(consumed, Head(buffer))
    /\ buffer' = Tail(buffer)
    /\ UNCHANGED <<chunk_size, server, spc>>
    /\ streamFrame

StreamInit ==
    /\ MainInQueryStage
    /\ SerializerIdle
    /\ EnsureIdle
    /\ chunk_size \in 1..MaxChunk
    /\ server \in 0..MaxResult
    /\ buffer = <<>>
    /\ consumed = <<>>
    /\ spc = "execute"

StreamNext ==
    \/ StreamExecute
    \/ StreamFetch
    \/ StreamWriteRow

StreamSpec == StreamInit /\ [][StreamNext]_vars

(***************************************************************************)
(* ensure_remote_dir_exists, lines 61-71 (main() does not call it): one    *)
(* MKCOL request; True for the statuses listed at line 68, otherwise       *)
(* resp.ok, which requests defines as "the status is below 400".  An       *)
(* exception of the request propagates to the caller.                      *)
(***************************************************************************)
HttpStatuses == 100..599

\* requests.Response.ok
RespOk(status) == status < 400

\* if resp.status_code in (201, 405, 405): return True / return resp.ok
EnsureReturns(status) ==
    IF status \in {201, 405, 405} THEN TRUE ELSE RespOk(status)

ensureFrame == UNCHANGED <<mainVars, description, fieldnames, rows, csvfile, wpc, streamVars>>

\* resp = requests.request('MKCOL', remote_dir_url, auth=auth)
EnsureRequest ==
    /\ ens_result = "none"
    /\ ens_status = 0
    /\ ens_status' \in HttpStatuses
    /\ UNCHANGED ens_result
    /\ ensureFrame

\* the return statement taken for the response
EnsureReturn ==
    /\ ens_result = "none"
    /\ ens_status # 0
    /\ ens_result' = IF EnsureReturns(ens_status) THEN "True" ELSE "False"
    /\ UNCHANGED ens_status
    /\ ensureFrame

EnsureInit ==
    /\ pc = "ensure_remote_dir_exists"
    /\ cmdline = "ok"
    /\ token = TRUE
    /\ pg_user = TRUE
    /\ pg_database = TRUE
    /\ local_temp = FALSE
    /\ raw_dir = <<>>
    /\ fileExists = FALSE
    /\ fsOps = <<>>
    /\ conn = "none"
    /\ cur = "none"
    /\ queryStatus = "none"
    /\ written = 0
    /\ headerDone = FALSE
    /\ parts = <<>>
    /\ accum = <<>>
    /\ idx = 0
    /\ requests = <<>>
    /\ responses = <<>>
    /\ resp = <<>>
    /\ exc = "none"
    /\ stdout = <<>>
    /\ stderr = <<>>
    /\ removeFailed = FALSE
    /\ exitCode = <<>>
    /\ dbCalls = <<>>
    /\ SerializerIdle
    /\ StreamIdle
    /\ EnsureIdle

EnsureNext ==
    \/ EnsureRequest
    \/ EnsureReturn

EnsureSpec == EnsureInit /\ [][EnsureNext]_vars

(***************************************************************************)
(* Vocabulary of the properties.                                           *)
(***************************************************************************)
Exited == pc = "exited"
Missing == ~token \/ ~pg_user \/ ~pg_database
PreconditionsPassed == cmdline = "ok" /\ ~Missing
InSeq(x, seq) == \E i \in 1..Len(seq) : seq[i] = x
IsMkcol(r) == r[1] = "MKCOL"
IsPut(r) == r[1] = "PUT"
Segments == Split(Strip(raw_dir))

\* s1/.../sn
RECURSIVE JoinSlash(_)
JoinSlash(ss) ==
    IF ss = <<>> THEN <<>>
    ELSE IF Len(ss) = 1 THEN ss[1]
    ELSE JoinSlash(SubSeq(ss, 1, Len(ss) - 1)) \o <<Slash>> \o ss[Len(ss)]

PrefixRequest(i) == <<"MKCOL", base_webdav \o <<Slash>> \o JoinSlash(SubSeq(Segments, 1, i))>>
LoopDone == pc \in {"upload", "interpret", "finally", "exited"} /\ queryStatus = "returned"

(***************************************************************************)
(* C1 -- as stated: in every run without --local-temp whose precondition   *)
(* checks passed, the local artifact is absent when the process exits.     *)
(* Refuted by a run in which os.remove raises.                             *)
(***************************************************************************)
C1_ArtifactAbsentAtExit ==
    (Exited /\ ~local_temp /\ PreconditionsPassed) => ~fileExists

(***************************************************************************)
(* C1 -- amended: in every run without --local-temp whose precondition     *)
(* checks passed (success, upload failure, exception in the query stage or *)
(* in the upload), the cleanup has tried to remove the artifact by the     *)
(* time the process exits: the artifact is absent, unless os.remove itself *)
(* failed, and then the failure was reported on stderr.                    *)
(***************************************************************************)
C1_ArtifactRemovedUnlessRemoveFails ==
    (Exited /\ ~local_temp /\ PreconditionsPassed) =>
        /\ fsOps # <<>>
        /\ fsOps[Len(fsOps)] \in {"remove", "remove_failed"}
        /\ ~fileExists <=> fsOps[Len(fsOps)] = "remove"
        /\ fileExists => (removeFailed /\ \E i \in 1..Len(stderr) : stderr[i].msg = "remove_failed")

C1_Witness ==
    /\ Exited /\ ~local_temp /\ PreconditionsPassed
    /\ exitCode = <<EXIT_UPLOAD_FAILED>>
    /\ ~fileExists
    /\ InSeq("open_w", fsOps)

(***************************************************************************)
(* C2 -- as stated: the cleanup never removes a caller-supplied artifact   *)
(* (--local-temp); such a file still exists after the process exits.       *)
(* Refuted: the finally clause removes local_path whatever its origin.     *)
(***************************************************************************)
C2_SuppliedArtifactKept ==
    local_temp =>
        /\ ~InSeq("remove", fsOps)
        /\ (Exited /\ InSeq("open_w", fsOps)) => fileExists

(***************************************************************************)
(* C2 -- amended: a caller-supplied artifact path is cleaned up like a     *)
(* generated one: in every run with --local-temp whose precondition checks *)
(* passed, on every exit path, the file at that path no longer exists when *)
(* the process exits, unless os.remove itself failed.                      *)
(***************************************************************************)
C2_SuppliedArtifactRemoved ==
    (Exited /\ local_temp /\ PreconditionsPassed) =>
        /\ fileExists => removeFailed
        /\ InSeq("open_w", fsOps) => fsOps[Len(fsOps)] \in {"remove", "remove_failed"}

C2_Witness ==
    /\ Exited /\ local_temp /\ PreconditionsPassed
    /\ exitCode = <<0>>
    /\ ~fileExists
    /\ fsOps[Len(fsOps)] = "remove"

(***************************************************************************)
(* C3 -- for a remote directory with segments s1..sn (after stripping the  *)
(* slashes at both ends) the loop issues exactly n MKCOL requests, the     *)
(* i-th for the prefix s1/.../si, in the order i = 1..n, whatever the      *)
(* responses (409, 405, ...) to the earlier requests were.                 *)
(***************************************************************************)
C3_MkcolPrefixesInOrder ==
    LET mk == SelectSeq(requests, IsMkcol)
    IN  /\ Len(mk) <= Len(Segments)
        /\ \A i \in 1..Len(mk) : mk[i] = PrefixRequest(i) /\ requests[i] = mk[i]
        /\ Len(responses) = Len(mk)
        /\ LoopDone => Len(mk) = Len(Segments)

C3_Witness ==
    /\ LoopDone
    /\ Len(Segments) >= 3
    /\ responses[1].status = 409
    /\ responses[2].status = 405
    /\ Len(SelectSeq(requests, IsMkcol)) = Len(Segments)

(***************************************************************************)
(* C4 -- once the PUT has returned a response, every status in 200..299    *)
(* makes main() report success and the process exit with 0; every other    *)
(* status makes it print the status and the body on stderr and the process *)
(* exit with 2.                                                            *)
(***************************************************************************)
C4_UploadStatusDecidesExit ==
    (Exited /\ resp # <<>>) =>
        LET st == resp[1].status_code
            reported == \E i \in 1..Len(stderr) :
                           /\ stderr[i].msg = "upload_error"
                           /\ stderr[i].status = st
                           /\ stderr[i].text = resp[1].text
        IN  IF st \in 200..299
            THEN /\ exitCode = <<0>>
                 /\ stdout[Len(stdout)].msg = "uploaded"
                 /\ ~reported
            ELSE /\ exitCode = <<2>>
                 /\ reported
                 /\ stdout[Len(stdout)].msg # "uploaded"

C4_Witness ==
    /\ Exited
    /\ resp # <<>>
    /\ resp[1].status_code = 403
    /\ exitCode = <<2>>

C6_MkcolNeverBlocksUpload ==
    (Exited /\ queryStatus = "returned") =>
        /\ requests # <<>>
        /\ requests[Len(requests)] = <<"PUT", remote_file_url>>
        /\ exitCode # <<0>> => (resp = <<>> \/ resp[1].status_code \notin 200..299)

C6_Witness ==
    /\ Exited /\ queryStatus = "returned"
    /\ Len(responses) >= 2
    /\ responses[1].raised
    /\ responses[2].status = 500
    /\ exitCode = <<0>>

(***************************************************************************)
(* C7 -- the stages run in the order query/serialize, MKCOL loop, PUT: no  *)
(* request is issued before run_query_and_write_csv has returned normally; *)
(* the PUT comes after the MKCOL request of every segment; if the          *)
(* query/serialize stage raises, no MKCOL and no PUT is issued and the     *)
(* process ends with a non-zero status.                                    *)
(***************************************************************************)
C7_StageOrder ==
    /\ requests # <<>> => queryStatus = "returned"
    /\ \A i \in 1..Len(requests) :
          IsPut(requests[i]) =>
              /\ i = Len(requests)
              /\ i = Len(Segments) + 1
              /\ \A j \in 1..(i - 1) : IsMkcol(requests[j])
    /\ (Exited /\ queryStatus = "raised") => (exitCode # <<0>> /\ requests = <<>>)

C7_Witness ==
    /\ Exited
    /\ queryStatus = "raised"
    /\ headerDone
    /\ conn = "closed"
    /\ exitCode = <<1>>

(***************************************************************************)
(* C8 -- once the connection has been opened, run_query_and_write_csv      *)
(* leaves (by return or by exception, the failure to open the cursor       *)
(* included) with the connection closed and the cursor closed (or its      *)
(* close attempted and failed).  Refuted: conn.cursor() is called before   *)
(* the try statement, so when it raises the finally clause does not run.   *)
(***************************************************************************)
C8_CursorAndConnectionReleased ==
    (queryStatus \in {"returned", "raised"} /\ conn # "none") =>
        /\ conn = "closed"
        /\ cur \in {"closed", "close_failed"}

(***************************************************************************)
(* C9 -- the exit codes identify their cause: 0 only after a 2xx upload,   *)
(* 1 only when the credential, the username or the database name was       *)
(* missing, 2 only when the upload returned a non-2xx status.  Refuted:    *)
(* an uncaught exception ends the process with status 1, and an invalid    *)
(* command line with status 2.                                             *)
(***************************************************************************)
C9_ExitCodesIdentifyCause ==
    Exited =>
        /\ exitCode = <<0>> => (resp # <<>> /\ resp[1].status_code \in 200..299)
        /\ exitCode = <<EXIT_PRECONDITION>> => Missing
        /\ exitCode = <<EXIT_UPLOAD_FAILED>> =>
               (resp # <<>> /\ resp[1].status_code \notin 200..299)
        /\ EXIT_PRECONDITION # EXIT_UPLOAD_FAILED
        /\ EXIT_PRECONDITION # 0 /\ EXIT_UPLOAD_FAILED # 0

(***************************************************************************)
(* A standard reader of delimited text (the "excel" dialect), used to say  *)
(* what records a file holds: fields are separated by commas, records end  *)
(* at a line break outside quotes, a quoted field may hold commas, line    *)
(* breaks and doubled quotes, and a blank line is a record of no fields.   *)
(***************************************************************************)
RECURSIVE ReadCsv(_, _, _, _, _, _)
ReadCsv(s, i, st, field, record, records) ==
    IF i > Len(s)
    THEN IF st \in {"start_record", "after_cr"} THEN records
         ELSE Append(records, Append(record, field))
    ELSE
      LET c == s[i]
          nl == c \in {CR, LF}
          ended == IF c = CR THEN "after_cr" ELSE "start_record"
      IN
      IF st = "after_cr" /\ c = LF
      THEN ReadCsv(s, i + 1, "start_record", <<>>, <<>>, records)
      ELSE IF st \in {"after_cr", "start_record"} /\ nl
      THEN ReadCsv(s, i + 1, ended, <<>>, <<>>, Append(records, <<>>))
      ELSE IF st \in {"after_cr", "start_record", "start_field"}
      THEN IF nl THEN ReadCsv(s, i + 1, ended, <<>>, <<>>, Append(records, Append(record, <<>>)))
           ELSE IF c = DQuote THEN ReadCsv(s, i + 1, "in_quoted", <<>>, record, records)
           ELSE IF c = Comma THEN ReadCsv(s, i + 1, "start_field", <<>>, Append(record, <<>>), records)
           ELSE ReadCsv(s, i + 1, "in_field", <<c>>, record, records)
      ELSE IF st = "in_field"
      THEN IF nl THEN ReadCsv(s, i + 1, ended, <<>>, <<>>, Append(records, Append(record, field)))
           ELSE IF c = Comma THEN ReadCsv(s, i + 1, "start_field", <<>>, Append(record, field), records)
           ELSE ReadCsv(s, i + 1, "in_field", Append(field, c), record, records)
      ELSE IF st = "in_quoted"
      THEN IF c = DQuote THEN ReadCsv(s, i + 1, "quote_in_quoted", field, record, records)
           ELSE ReadCsv(s, i + 1, "in_quoted", Append(field, c), record, records)
      ELSE \* "quote_in_quoted"
           IF c = DQuote THEN ReadCsv(s, i + 1, "in_quoted", Append(field, c), record, records)
           ELSE IF c = Comma THEN ReadCsv(s, i + 1, "start_field", <<>>, Append(record, field), records)
           ELSE IF nl THEN ReadCsv(s, i + 1, ended, <<>>, <<>>, Append(records, Append(record, field)))
           ELSE ReadCsv(s, i + 1, "in_field", Append(field, c), record, records)

Records(s) == ReadCsv(s, 1, "start_record", <<>>, <<>>, <<>>)

\* the lines of a text: one per "\r\n", "\n" or "\r"
NumLines(s) ==
    Cardinality({i \in 1..Len(s) :
        \/ s[i] = LF
        \/ s[i] = CR /\ (i = Len(s) \/ s[i + 1] # LF)})

HasLineBreak(f) == \E i \in 1..Len(f) : f[i] \in {CR, LF}

\* the header and the rows, as texts, in the order of the descriptor and of the store
ExpectedRecords ==
    <<description>> \o
        [i \in 1..Len(rows) |-> [j \in 1..Len(description) |-> Str(rows[i][description[j]])]]

NoLineBreaks ==
    /\ \A j \in 1..Len(description) : ~HasLineBreak(description[j])
    /\ \A i \in 1..Len(rows) : \A n \in DOMAIN rows[i] : ~HasLineBreak(Str(rows[i][n]))

(***************************************************************************)
(* C10 -- as stated: for a result of N rows and K columns the file has     *)
(* exactly N+1 lines.  Refuted by a value that holds a line break: it is   *)
(* written inside quotes with its line break, so its row takes two lines.  *)
(***************************************************************************)
C10_ExactlyNPlus1Lines ==
    wpc = "done" => NumLines(csvfile) = Len(rows) + 1

(***************************************************************************)
(* C10 -- amended: for a result of N rows and K columns the file holds     *)
(* exactly N+1 records, each ended by the line terminator: first the       *)
(* header with the K column names in the order of the descriptor, then one *)
(* record per row, in the order the store returned the rows, its K values  *)
(* in the order of the header; the file has exactly N+1 lines when no      *)
(* column name and no value holds a line break.                            *)
(***************************************************************************)
C10_HeaderThenOneRecordPerRow ==
    wpc \in {"rows", "done"} =>
        /\ LET recs == Records(csvfile)
           IN  /\ recs = ExpectedRecords
               /\ Len(recs) = Len(rows) + 1
               /\ recs[1] = description
        /\ SubSeq(csvfile, Len(csvfile) - 1, Len(csvfile)) = lineterminator
        /\ NoLineBreaks => NumLines(csvfile) = Len(rows) + 1

C10_Witness ==
    /\ wpc = "done"
    /\ Len(rows) = 2
    /\ Len(description) = 2
    /\ description[1] # description[2]
    /\ rows[1][description[1]] = <<"x", LF>>
    /\ rows[2][description[2]] = <<Comma, DQuote>>
    /\ NumLines(csvfile) = 4
    /\ Len(Records(csvfile)) = 3

(***************************************************************************)
(* C11 -- while a result set of any length is streamed with fetch-batch    *)
(* size B (chunk_size), the rows fetched by the client and not yet written *)
(* never number more than B: every fetch brings at most B rows, the rows   *)
(* are written one by one in the order of the store, and a written row is  *)
(* no longer held.                                                         *)
(***************************************************************************)
C11_AtMostOneBatchHeld ==
    LET N == Len(consumed) + Len(buffer) + server
    IN  /\ Len(buffer) <= chunk_size
        /\ consumed \o buffer = [i \in 1..(Len(consumed) + Len(buffer)) |-> i]
        /\ \A i \in 1..Len(buffer) : ~InSeq(buffer[i], consumed)
        /\ spc = "done" => (server = 0 /\ buffer = <<>> /\ Len(consumed) = N)

C11_Witness ==
    /\ spc = "iterate"
    /\ chunk_size = 2
    /\ Len(consumed) = 4
    /\ Len(buffer) = 2
    /\ server = 0

(***************************************************************************)
(* C12 -- when the MKCOL request for a prefix is answered 409, main()      *)
(* prints a warning that names that prefix and goes on to the request of   *)
(* the next segment.  Refuted: the 409 branch of the loop prints nothing.  *)
(***************************************************************************)
C12_ConflictWarnsAndContinues ==
    \A i \in 1..Len(responses) :
        (~responses[i].raised /\ responses[i].status = 409) =>
            /\ \E k \in 1..Len(stdout) :
                  /\ stdout[k].msg \in {"mkcol_status", "mkcol_failed"}
                  /\ stdout[k].url = requests[i][2]
            /\ (LoopDone /\ i < Len(Segments)) => IsMkcol(requests[i + 1])

(***************************************************************************)
(* C13 -- a failure to delete the local artifact is never escalated: the   *)
(* exit status of a run is what the stages before the cleanup decided (0   *)
(* after a 2xx upload, 2 after a non-2xx upload, the status of the         *)
(* uncaught exception after a failing query stage or a failing PUT         *)
(* request), whether os.remove succeeded or raised, and a failing deletion *)
(* is only reported as a warning on stderr.                                *)
(***************************************************************************)
C13_RemoveFailureNotEscalated ==
    (Exited /\ PreconditionsPassed) =>
        /\ exitCode =
              <<IF queryStatus = "raised" THEN EXIT_UNCAUGHT
                ELSE IF resp = <<>> THEN EXIT_UNCAUGHT
                ELSE IF resp[1].status_code \in 200..299 THEN 0
                ELSE EXIT_UPLOAD_FAILED>>
        /\ removeFailed <=> \E i \in 1..Len(stderr) : stderr[i].msg = "remove_failed"
        /\ (\E i \in 1..Len(stderr) : stderr[i].msg = "traceback") <=> exc = "Error"

C13_Witness ==
    /\ Exited /\ PreconditionsPassed
    /\ removeFailed
    /\ fileExists
    /\ resp # <<>>
    /\ resp[1].status_code = 201
    /\ exitCode = <<0>>

(***************************************************************************)
(* C14 -- nothing is retried: in a run, whatever the outcomes, the store   *)
(* connection is opened at most once and the query executed at most once,  *)
(* the MKCOL request of each prefix is issued at most once, and the PUT is *)
(* issued at most once.                                                    *)
(***************************************************************************)
Count(x, seq) == Cardinality({i \in 1..Len(seq) : seq[i] = x})

C14_NothingRetried ==
    /\ Count("connect", dbCalls) <= 1
    /\ Count("execute", dbCalls) <= 1
    /\ \A i, j \in 1..Len(requests) : requests[i] = requests[j] => i = j
    /\ Cardinality({i \in 1..Len(requests) : IsPut(requests[i])}) <= 1
    /\ Len(requests) <= Len(Segments) + 1

C14_Witness ==
    /\ Exited
    /\ dbCalls = <<"connect", "execute">>
    /\ Len(requests) = 3
    /\ responses[1].status = 409
    /\ responses[2].raised
    /\ resp # <<>>
    /\ resp[1].status_code = 403
    /\ exitCode = <<EXIT_UPLOAD_FAILED>>

C16_PreconditionFailureTouchesNoFile ==
    /\ [](Missing => (fsOps = <<>> /\ ~removeFailed /\ (~local_temp => ~fileExists)))
    /\ [][Missing => fileExists' = fileExists]_vars

C16_Witness ==
    /\ Exited /\ cmdline = "ok"
    /\ ~token /\ pg_user /\ pg_database
    /\ local_temp /\ fileExists
    /\ fsOps = <<>>
    /\ exitCode = <<EXIT_PRECONDITION>>

(***************************************************************************)
(* C17 -- ensure_remote_dir_exists returns True when the status of the     *)
(* MKCOL response is 201, 405 or 409, and for any other status it returns  *)
(* True exactly when the status denotes success.  Refuted: line 68 tests   *)
(* (201, 405, 405), so a 409 falls through to resp.ok, which is False.     *)
(***************************************************************************)
C17_AlreadyExistsIsSuccess ==
    ens_result # "none" =>
        (ens_result = "True" <=>
            (ens_status \in {201, 405, 409} \/ ens_status < 400))

====
